---------------------------- MODULE Spec2Model ----------------------------
(***************************************************************************)
(* The LRU cache of lru.py and the Streamlit session that drives it.       *)
(*                                                                         *)
(* An LRUCache object is a record [capacity, cache]; its cache field is    *)
(* the OrderedDict, a sequence of <<key, value>> items in insertion order  *)
(* (first item = oldest, last item = newest).  Every method is an operator *)
(* from the object to [self |-> the object after the call, ret |-> the     *)
(* returned value].  Session-state slots that may be absent or None are    *)
(* sequences of length 0 or 1.                                             *)
(***************************************************************************)
EXTENDS Integers, Sequences, FiniteSets, TLC

\* ------------------------------ bounds ---------------------------------
MaxKey == 3
MaxVal == 0
MaxCap == 3
MaxTouch == 4

\* ------------------------- program constants ---------------------------
NotFound == -1
MinCapacity == 1

Keys == 1..MaxKey
Values == NotFound..MaxVal
Capacities == MinCapacity..MaxCap
AnyCapacities == (MinCapacity - 2)..MaxCap

None == <<>>
Some(x) == <<x>>

\* ----------------------------- OrderedDict -----------------------------
RECURSIVE reversed(_)
reversed(s) == IF s = <<>> THEN <<>> ELSE Append(reversed(Tail(s)), Head(s))

contains(od, key) == \E i \in 1..Len(od) : od[i][1] = key

index(od, key) == CHOOSE i \in 1..Len(od) : od[i][1] = key

getitem(od, key) == od[index(od, key)][2]

delitem(od, key) ==
    LET i == index(od, key)
    IN  SubSeq(od, 1, i - 1) \o SubSeq(od, i + 1, Len(od))

move_to_end(od, key) == Append(delitem(od, key), od[index(od, key)])

setitem_keep_old(od, key, value) ==
    IF contains(od, key) THEN od ELSE Append(od, <<key, value>>)

setitem(od, key, value) ==
    IF contains(od, key)
    THEN [od EXCEPT ![index(od, key)] = <<key, value>>]
    ELSE Append(od, <<key, value>>)

popitem_last(od) == SubSeq(od, 1, Len(od) - 1)

popitem(od) == Tail(od)

\* ------------------------------ LRUCache -------------------------------
LRUCache(capacity) == [capacity |-> capacity, cache |-> <<>>]

get_no_move(self, key) ==
    IF ~contains(self.cache, key)
    THEN [self |-> self, ret |-> NotFound]
    ELSE [self |-> self, ret |-> getitem(self.cache, key)]

get_insert_on_miss(self, key) ==
    IF ~contains(self.cache, key)
    THEN [self |-> [self EXCEPT !.cache = Append(self.cache, <<key, NotFound>>)],
          ret |-> NotFound]
    ELSE LET od == move_to_end(self.cache, key)
         IN  [self |-> [self EXCEPT !.cache = od], ret |-> getitem(od, key)]

get(self, key) ==
    IF ~contains(self.cache, key)
    THEN [self |-> self, ret |-> NotFound]
    ELSE LET od == move_to_end(self.cache, key)
         IN  [self |-> [self EXCEPT !.cache = od], ret |-> getitem(od, key)]

put_no_evict(self, key, value) ==
    LET od1 == IF contains(self.cache, key)
               THEN move_to_end(self.cache, key) ELSE self.cache
        od2 == setitem(od1, key, value)
    IN  [self |-> [self EXCEPT !.cache = od2], ret |-> None]

put_no_move(self, key, value) ==
    LET od2 == setitem(self.cache, key, value)
        od3 == IF Len(od2) > self.capacity THEN popitem(od2) ELSE od2
    IN  [self |-> [self EXCEPT !.cache = od3], ret |-> None]

put_evict_before_insert(self, key, value) ==
    LET od0 == IF Len(self.cache) >= self.capacity /\ self.cache # <<>>
               THEN popitem(self.cache) ELSE self.cache
        od1 == IF contains(od0, key) THEN move_to_end(od0, key) ELSE od0
        od2 == setitem(od1, key, value)
    IN  [self |-> [self EXCEPT !.cache = od2], ret |-> None]

put_evict_at_capacity(self, key, value) ==
    LET od1 == IF contains(self.cache, key)
               THEN move_to_end(self.cache, key) ELSE self.cache
        od2 == setitem(od1, key, value)
        od3 == IF Len(od2) >= self.capacity THEN popitem(od2) ELSE od2
    IN  [self |-> [self EXCEPT !.cache = od3], ret |-> None]

put(self, key, value) ==
    LET od1 == IF contains(self.cache, key)
               THEN move_to_end(self.cache, key) ELSE self.cache
        od2 == setitem(od1, key, value)
        od3 == IF Len(od2) > self.capacity THEN popitem(od2) ELSE od2
    IN  [self |-> [self EXCEPT !.cache = od3], ret |-> None]

clear_oldest(self) ==
    [self |-> [self EXCEPT !.cache = IF self.cache = <<>> THEN <<>> ELSE Tail(self.cache)],
     ret |-> None]

clear_reinit(self) == [self |-> LRUCache(0), ret |-> None]

clear(self) == [self |-> [self EXCEPT !.cache = <<>>], ret |-> None]

display_in_place(self) ==
    [self |-> [self EXCEPT !.cache = reversed(self.cache)],
     ret |-> reversed(self.cache)]

display_lru_first(self) == [self |-> self, ret |-> self.cache]

display(self) == [self |-> self, ret |-> reversed(self.cache)]

\* ------------------------------- state ---------------------------------
VARIABLES
    cache_initialized,  \* st.session_state.cache_initialized
    cache,              \* st.session_state.cache: None or Some(LRUCache object)
    capacity,           \* st.session_state.capacity: None or Some(integer)
    highlight,          \* st.session_state.highlight: None or Some(key)
    render,             \* what the last script run drew: None or Some(record)
    op,                 \* the call the last step made: name, key, value, ret, msg
    prev,               \* the cache object that call was made on: None or Some
    clock,              \* number of touches since construction or the last clear
    lastTouch,          \* key -> clock value of its last put or get hit, 0 if none
    prevTouch,          \* lastTouch before the last step
    lastPut,            \* reference store: key -> Some(value of its last put),
                        \* for the keys the reference LRU keeps; None otherwise
    script              \* the values a scripted session uses, None otherwise

vars == <<cache_initialized, cache, capacity, highlight, render, op, prev,
          clock, lastTouch, prevTouch, lastPut, script>>

NoTouch == [k \in Keys |-> 0]

NoPut == [k \in Keys |-> None]

\* The reference LRU: of the keys touched, the c most recently touched.
RefLive(touch, c) ==
    {k \in Keys : /\ touch[k] > 0
                  /\ Cardinality({j \in Keys : touch[j] > touch[k]}) < c}

\* The reference store after put(key, value) at a time when `touch` holds.
RefPut(store, touch, c, key, value) ==
    [k \in Keys |-> IF k \notin RefLive(touch, c) THEN None
                    ELSE IF k = key THEN Some(value) ELSE store[k]]

Call(name, key, value, ret, msg) ==
    [name |-> name, key |-> key, value |-> value, ret |-> ret, msg |-> msg]

\* Lines 117-134: the usage bar and the content boxes, two display() calls.
Render(obj) ==
    LET d1 == display(obj)
        d2 == display(d1.self)
    IN  [before |-> obj, usage |-> Len(d1.ret), first |-> d1.ret, mid |-> d1.self,
         items |-> d2.ret, after |-> d2.self]

Init ==
    /\ cache_initialized = FALSE
    /\ cache = None
    /\ capacity = None
    /\ highlight = None
    /\ render = None
    /\ op = Call("start", None, None, None, "")
    /\ prev = None
    /\ clock = 0
    /\ lastTouch = NoTouch
    /\ prevTouch = NoTouch
    /\ lastPut = NoPut
    /\ script = None

\* --------------------------- the Streamlit app -------------------------
\* Lines 81-88, then the main UI of the same run.
Initialize(c) ==
    /\ ~cache_initialized
    /\ LET r == Render(LRUCache(c))
       IN  /\ cache' = Some(r.after)
           /\ render' = Some(r)
    /\ capacity' = Some(c)
    /\ cache_initialized' = TRUE
    /\ op' = Call("init", None, Some(c), None, "Cache Initialized")
    /\ prev' = None
    /\ clock' = 0
    /\ lastTouch' = NoTouch
    /\ prevTouch' = lastTouch
    /\ UNCHANGED highlight
    /\ lastPut' = NoPut
    /\ UNCHANGED script

\* Lines 97-103, then lines 117-134.
PutSubmit(put_key, put_value) ==
    /\ cache_initialized
    /\ clock < MaxTouch
    /\ LET p == put(cache[1], put_key, put_value)
           r == Render(p.self)
       IN  /\ cache' = Some(r.after)
           /\ render' = Some(r)
           /\ op' = Call("put", Some(put_key), Some(put_value), p.ret, "Stored")
    /\ highlight' = Some(put_key)
    /\ prev' = cache
    /\ clock' = clock + 1
    /\ lastTouch' = [lastTouch EXCEPT ![put_key] = clock + 1]
    /\ prevTouch' = lastTouch
    /\ UNCHANGED <<cache_initialized, capacity>>
    /\ lastPut' = RefPut(lastPut, lastTouch', capacity[1], put_key, put_value)
    /\ UNCHANGED script

\* Lines 107-115, then lines 117-134.
GetSubmit(get_key) ==
    /\ cache_initialized
    /\ LET hit == contains(cache[1].cache, get_key)
           g == get(cache[1], get_key)
           r == Render(g.self)
       IN  /\ hit => clock < MaxTouch
           /\ cache' = Some(r.after)
           /\ render' = Some(r)
           /\ IF g.ret = -1
              THEN /\ op' = Call("get", Some(get_key), None, g.ret, "Key not found")
                   /\ UNCHANGED highlight
              ELSE /\ op' = Call("get", Some(get_key), None, g.ret, "Value")
                   /\ highlight' = Some(get_key)
           /\ clock' = IF hit THEN clock + 1 ELSE clock
           /\ lastTouch' = IF hit THEN [lastTouch EXCEPT ![get_key] = clock + 1]
                           ELSE lastTouch
    /\ prev' = cache
    /\ prevTouch' = lastTouch
    /\ UNCHANGED <<cache_initialized, capacity>>
    /\ UNCHANGED <<lastPut, script>>

ResetCache_keeps_highlight ==
    /\ cache_initialized
    /\ cache_initialized' = FALSE
    /\ cache' = None
    /\ capacity' = None
    /\ render' = None
    /\ op' = Call("reset", None, None, None, "")
    /\ prev' = cache
    /\ clock' = 0
    /\ lastTouch' = NoTouch
    /\ prevTouch' = lastTouch
    /\ lastPut' = NoPut
    /\ UNCHANGED <<highlight, script>>

\* Lines 139-143 and the rerun they start (lines 75-78).
ResetCache ==
    /\ cache_initialized
    /\ cache_initialized' = FALSE
    /\ cache' = None
    /\ capacity' = None
    /\ highlight' = None
    /\ render' = None
    /\ op' = Call("reset", None, None, None, "")
    /\ prev' = cache
    /\ clock' = 0
    /\ lastTouch' = NoTouch
    /\ prevTouch' = lastTouch
    /\ lastPut' = NoPut
    /\ UNCHANGED script

\* Lines 117-134 draw the cache first, then lines 146-149 clear it.
ClearAll ==
    /\ cache_initialized
    /\ LET r == Render(cache[1])
           c == clear(r.after)
       IN  /\ render' = Some(r)
           /\ cache' = Some(c.self)
           /\ op' = Call("clear", None, None, c.ret, "Cache Cleared")
    /\ highlight' = None
    /\ prev' = cache
    /\ clock' = 0
    /\ lastTouch' = NoTouch
    /\ prevTouch' = lastTouch
    /\ UNCHANGED <<cache_initialized, capacity>>
    /\ lastPut' = NoPut
    /\ UNCHANGED script

Next ==
    \/ \E c \in Capacities : Initialize(c)
    \/ \E k \in Keys, v \in Values : PutSubmit(k, v)
    \/ \E k \in Keys : GetSubmit(k)
    \/ ResetCache
    \/ ClearAll

Spec == Init /\ [][Next]_vars

\* ------------------ the LRUCache class called directly ------------------
\* Lines 6-8 with any integer argument: the constructor has no guard.
New(c) ==
    /\ cache = None
    /\ cache' = Some(LRUCache(c))
    /\ op' = Call("new", None, Some(c), None, "")
    /\ prev' = None
    /\ clock' = 0
    /\ lastTouch' = NoTouch
    /\ prevTouch' = lastTouch
    /\ UNCHANGED <<cache_initialized, capacity, highlight, render>>
    /\ lastPut' = NoPut
    /\ UNCHANGED script

\* Lines 16-21.
CallPut(key, value) ==
    /\ cache # None
    /\ clock < MaxTouch
    /\ LET p == put(cache[1], key, value)
       IN  /\ cache' = Some(p.self)
           /\ op' = Call("put", Some(key), Some(value), p.ret, "")
    /\ prev' = cache
    /\ clock' = clock + 1
    /\ lastTouch' = [lastTouch EXCEPT ![key] = clock + 1]
    /\ prevTouch' = lastTouch
    /\ UNCHANGED <<cache_initialized, capacity, highlight, render>>
    /\ lastPut' = RefPut(lastPut, lastTouch', cache[1].capacity, key, value)
    /\ UNCHANGED script

\* Lines 10-14.
CallGet(key) ==
    /\ cache # None
    /\ LET hit == contains(cache[1].cache, key)
           g == get(cache[1], key)
       IN  /\ hit => clock < MaxTouch
           /\ cache' = Some(g.self)
           /\ op' = Call("get", Some(key), None, g.ret, "")
           /\ clock' = IF hit THEN clock + 1 ELSE clock
           /\ lastTouch' = IF hit THEN [lastTouch EXCEPT ![key] = clock + 1]
                           ELSE lastTouch
    /\ prev' = cache
    /\ prevTouch' = lastTouch
    /\ UNCHANGED <<cache_initialized, capacity, highlight, render>>
    /\ UNCHANGED <<lastPut, script>>

\* Lines 23-24.
CallClear ==
    /\ cache # None
    /\ LET c == clear(cache[1])
       IN  /\ cache' = Some(c.self)
           /\ op' = Call("clear", None, None, c.ret, "")
    /\ prev' = cache
    /\ clock' = 0
    /\ lastTouch' = NoTouch
    /\ prevTouch' = lastTouch
    /\ UNCHANGED <<cache_initialized, capacity, highlight, render>>
    /\ lastPut' = NoPut
    /\ UNCHANGED script

\* Lines 26-27.
CallDisplay ==
    /\ cache # None
    /\ LET d == display(cache[1])
       IN  /\ cache' = Some(d.self)
           /\ op' = Call("display", None, None, d.ret, "")
    /\ prev' = cache
    /\ prevTouch' = lastTouch
    /\ UNCHANGED <<cache_initialized, capacity, highlight, render, clock, lastTouch>>
    /\ UNCHANGED <<lastPut, script>>

CoreNext ==
    \/ \E c \in AnyCapacities : New(c)
    \/ \E k \in Keys, v \in Values : CallPut(k, v)
    \/ \E k \in Keys : CallGet(k)
    \/ CallClear
    \/ CallDisplay

CoreSpec == Init /\ [][CoreNext]_vars

\* ---------------- the capacity-2 session of the examples ----------------
\* initialize(2); put(1, a); put(2, b); get(1); put(3, c); get(2), made through
\* the forms, for every choice of the values a, b, c.
ScenarioValues == 0..(MaxVal + 2)

ScenarioInit ==
    /\ cache_initialized = FALSE
    /\ cache = None
    /\ capacity = None
    /\ highlight = None
    /\ render = None
    /\ op = Call("start", None, None, None, "")
    /\ prev = None
    /\ clock = 0
    /\ lastTouch = NoTouch
    /\ prevTouch = NoTouch
    /\ lastPut = NoPut
    /\ \E a \in ScenarioValues, b \in ScenarioValues, c \in ScenarioValues :
           script = Some([a |-> a, b |-> b, c |-> c])

After(name, key) == op.name = name /\ op.key = key

ScenarioNext ==
    \/ After("start", None) /\ Initialize(2)
    \/ After("init", None) /\ PutSubmit(1, script[1].a)
    \/ After("put", Some(1)) /\ PutSubmit(2, script[1].b)
    \/ After("put", Some(2)) /\ GetSubmit(1)
    \/ After("get", Some(1)) /\ PutSubmit(3, script[1].c)
    \/ After("put", Some(3)) /\ GetSubmit(2)

ScenarioSpec == ScenarioInit /\ [][ScenarioNext]_vars

\* ------------------------------ properties -----------------------------
LiveKeys(obj) == {obj.cache[i][1] : i \in 1..Len(obj.cache)}

ValueOf(obj, k) == getitem(obj.cache, k)

\* The call of the last step was name(...) on an existing cache object.
Did(name) == op.name = name /\ prev # None /\ cache # None

PutNewKeyWhenFull ==
    /\ Did("put")
    /\ prev[1].capacity >= 1
    /\ Cardinality(LiveKeys(prev[1])) = prev[1].capacity
    /\ op.key[1] \notin LiveKeys(prev[1])

GetHit == Did("get") /\ op.key[1] \in LiveKeys(prev[1])

GetMiss == Did("get") /\ op.key[1] \notin LiveKeys(prev[1])

PutLiveKey == Did("put") /\ op.key[1] \in LiveKeys(prev[1])

\* C1: a put of a key that is not live into a full cache removes exactly the
\* live key whose last touch is the oldest; every other live key stays live
\* with its value, and the new key becomes live.
C1_EvictsLeastRecentlyTouched ==
    PutNewKeyWhenFull =>
        \E victim \in LiveKeys(prev[1]) :
            /\ \A j \in LiveKeys(prev[1]) \ {victim} : prevTouch[victim] < prevTouch[j]
            /\ LiveKeys(cache[1]) = (LiveKeys(prev[1]) \ {victim}) \cup {op.key[1]}
            /\ Len(cache[1].cache) = Cardinality(LiveKeys(cache[1]))
            /\ \A j \in LiveKeys(prev[1]) \ {victim} :
                   ValueOf(cache[1], j) = ValueOf(prev[1], j)

C1_Witness ==
    /\ PutNewKeyWhenFull
    /\ prev[1].capacity >= 2
    /\ Len(cache[1].cache) = prev[1].capacity

\* C2: with capacity >= 1 the number of live entries never exceeds capacity.
C2_CapacityBound ==
    (cache # None /\ cache[1].capacity >= 1) =>
        /\ Len(cache[1].cache) <= cache[1].capacity
        /\ Cardinality(LiveKeys(cache[1])) <= cache[1].capacity

C2_Witness ==
    /\ PutNewKeyWhenFull
    /\ Len(prev[1].cache) = cache[1].capacity
    /\ Len(cache[1].cache) = cache[1].capacity

\* C3: display() lists every live key exactly once, in strictly decreasing
\* order of the time of its last touch.
C3_DisplayByDecreasingLastTouch ==
    cache # None =>
        LET d == display(cache[1]).ret
        IN  /\ {d[i][1] : i \in 1..Len(d)} = LiveKeys(cache[1])
            /\ Len(d) = Cardinality(LiveKeys(cache[1]))
            /\ \A i \in 1..Len(d) : lastTouch[d[i][1]] > 0
            /\ \A i, j \in 1..Len(d) :
                   i < j => lastTouch[d[i][1]] > lastTouch[d[j][1]]

C3_Witness ==
    /\ GetHit
    /\ Len(cache[1].cache) >= 3
    /\ prev[1].cache[1][1] = op.key[1]

\* C4: get of a live key returns its value and moves it to the most recently
\* used position; values, the live set and the order of the others stay.
C4_GetHitPromotesOnly ==
    GetHit =>
        LET k == op.key[1]
        IN  /\ op.ret = ValueOf(prev[1], k)
            /\ display(cache[1]).ret[1][1] = k
            /\ LiveKeys(cache[1]) = LiveKeys(prev[1])
            /\ \A j \in LiveKeys(prev[1]) : ValueOf(cache[1], j) = ValueOf(prev[1], j)
            /\ delitem(cache[1].cache, k) = delitem(prev[1].cache, k)

C4_Witness ==
    /\ GetHit
    /\ Len(prev[1].cache) >= 3
    /\ display(prev[1]).ret[1][1] # op.key[1]
    /\ op.ret # NotFound

\* C5: put on a live key overwrites its value, moves it to the most recently
\* used position and evicts nothing, also in a full cache and at capacity 1.
C5_OverwriteKeepsEntries ==
    PutLiveKey =>
        LET k == op.key[1]
        IN  /\ ValueOf(cache[1], k) = op.value[1]
            /\ display(cache[1]).ret[1] = <<k, op.value[1]>>
            /\ LiveKeys(cache[1]) = LiveKeys(prev[1])
            /\ Len(cache[1].cache) = Len(prev[1].cache)
            /\ \A j \in LiveKeys(prev[1]) \ {k} :
                   ValueOf(cache[1], j) = ValueOf(prev[1], j)
            /\ delitem(cache[1].cache, k) = delitem(prev[1].cache, k)

C5_Witness ==
    /\ PutLiveKey
    /\ Len(prev[1].cache) = prev[1].capacity
    /\ Len(prev[1].cache) >= 3
    /\ display(prev[1]).ret[1][1] # op.key[1]
    /\ ValueOf(prev[1], op.key[1]) # op.value[1]

\* C6: get of a key that is not live returns NotFound and changes nothing.
C6_GetMissChangesNothing ==
    GetMiss =>
        /\ op.ret = NotFound
        /\ cache = prev
        /\ lastTouch = prevTouch

C6_Witness ==
    /\ GetMiss
    /\ Len(prev[1].cache) >= 2
    /\ prevTouch[op.key[1]] > 0

\* C7: what get returns for a live key differs from what it returns for an
\* absent key (NotFound), whatever integer value was put.
C7_HitDiffersFromNotFound == GetHit => op.ret # NotFound

\* C8: no cache object exists with capacity < 1; a construction with such a
\* capacity creates no instance.
C8_InvalidCapacityRejected ==
    /\ cache # None => cache[1].capacity >= 1
    /\ (op.name = "new" /\ op.value[1] < 1) => cache = None

\* C9: clear leaves no live entry and the capacity as it was, and a second
\* clear leaves the state of the first.
C9_ClearEmptiesAndIsIdempotent ==
    Did("clear") =>
        /\ cache[1].cache = <<>>
        /\ display(cache[1]).ret = <<>>
        /\ cache[1].capacity = prev[1].capacity
        /\ clear(cache[1]).self = cache[1]
        /\ clear(clear(prev[1]).self).self = cache[1]

C9_Witness == Did("clear") /\ Len(prev[1].cache) >= 2

\* C10: display changes nothing: the object is the same after each of the two
\* calls a render makes, both return the same sequence, and a following put
\* gives the same result as on the object never displayed.
C10_DisplayIsReadOnly ==
    render # None =>
        LET r == render[1]
        IN  /\ r.mid = r.before
            /\ r.after = r.before
            /\ r.first = r.items
            /\ r.usage = Len(r.items)
            /\ \A k \in Keys, v \in Values :
                   put(r.after, k, v).self = put(r.before, k, v).self

C10_Witness ==
    /\ render # None
    /\ Len(render[1].items) >= 2
    /\ Len(render[1].items) = render[1].before.capacity

\* C11: a live key stops being live only through clear or through a put of
\* another key that was not live into a full cache; get, display and put on a
\* live key remove no key, and one put removes at most one key.
Removed == LiveKeys(prev[1]) \ LiveKeys(cache[1])

C11_KeysLeaveOnlyByClearOrEviction ==
    /\ Did("get") => Removed = {}
    /\ PutLiveKey => Removed = {}
    /\ Did("put") =>
           /\ Cardinality(Removed) <= 1
           /\ Removed # {} =>
                  /\ op.key[1] \notin LiveKeys(prev[1])
                  /\ op.key[1] \notin Removed
                  /\ Cardinality(LiveKeys(prev[1])) = prev[1].capacity
    /\ render # None =>
           /\ LiveKeys(render[1].mid) = LiveKeys(render[1].before)
           /\ LiveKeys(render[1].after) = LiveKeys(render[1].before)

C11_Witness ==
    /\ PutLiveKey
    /\ Len(prev[1].cache) = prev[1].capacity
    /\ prev[1].capacity >= 2
    /\ prev[1].cache[1][1] # op.key[1]

\* C12: while a cache is initialized, its capacity and the capacity kept in
\* session state are the capacity it was initialized with; no put, get, clear
\* or display changes either.
C12_CapacityFixedUntilReset ==
    cache_initialized =>
        /\ capacity # None /\ cache # None
        /\ cache[1].capacity = capacity[1]
        /\ op.name = "init" => capacity = op.value
        /\ prev # None => prev[1].capacity = capacity[1]
        /\ render # None =>
               /\ render[1].before.capacity = capacity[1]
               /\ render[1].mid.capacity = capacity[1]
               /\ render[1].after.capacity = capacity[1]

C12_Witness ==
    /\ cache_initialized
    /\ Did("clear")
    /\ capacity[1] >= 2
    /\ Len(prev[1].cache) = capacity[1]

\* C13: in the capacity-2 session, after put(1,a), put(2,b) the snapshot is
\* [(2,b),(1,a)]; get(1) returns a and gives [(1,a),(2,b)]; put(3,c) evicts
\* key 2 and gives [(3,c),(1,a)]; get(2) then returns NotFound.
C13_Capacity2Scenario ==
    script # None =>
        LET a == script[1].a
            b == script[1].b
            c == script[1].c
            snapshot == render[1].items
        IN  /\ After("put", Some(2)) => snapshot = << <<2, b>>, <<1, a>> >>
            /\ After("get", Some(1)) =>
                   /\ op.ret = a
                   /\ snapshot = << <<1, a>>, <<2, b>> >>
            /\ After("put", Some(3)) =>
                   /\ snapshot = << <<3, c>>, <<1, a>> >>
                   /\ 2 \notin LiveKeys(cache[1])
                   /\ 2 \in LiveKeys(prev[1])
            /\ After("get", Some(2)) =>
                   /\ op.ret = NotFound
                   /\ display(cache[1]).ret = << <<3, c>>, <<1, a>> >>

C13_Witness ==
    /\ script = Some([a |-> 0, b |-> 1, c |-> 2])
    /\ After("get", Some(2))
    /\ clock = 4
    /\ cache[1].capacity = 2

\* C14: a retrieve submission reports "Key not found" exactly when the key is
\* not live; a reported miss leaves contents and recency order as they were,
\* and for a live key the key's value is reported.
C14_MissReportedIffNotLive ==
    (Did("get") /\ cache_initialized) =>
        LET k == op.key[1]
            live == k \in LiveKeys(prev[1])
        IN  /\ op.msg = "Key not found" <=> ~live
            /\ op.msg = "Key not found" => cache = prev
            /\ live => (op.msg = "Value" /\ op.ret = ValueOf(prev[1], k))

\* C16: put, get, clear and display happen only while a cache is initialized
\* and initialize only while none is; reset discards cache, capacity and
\* highlight; an initialize(c) gives an empty cache of capacity c.
C16_SessionStateMachine ==
    [][ /\ op'.name \in {"put", "get", "clear"} =>
               /\ cache_initialized /\ cache # None
               /\ cache_initialized' /\ cache' # None
        /\ render' # None => cache_initialized'
        /\ op'.name = "init" =>
               /\ ~cache_initialized /\ cache = None /\ capacity = None
               /\ cache_initialized'
               /\ cache' = Some([capacity |-> op'.value[1], cache |-> <<>>])
               /\ capacity' = op'.value
               /\ display(cache'[1]).ret = <<>>
               /\ highlight' = None
        /\ op'.name = "reset" =>
               /\ cache_initialized /\ cache # None
               /\ ~cache_initialized'
               /\ cache' = None /\ capacity' = None /\ highlight' = None
               /\ render' = None
      ]_vars

C16_Witness ==
    /\ op.name = "reset"
    /\ ~cache_initialized
    /\ prev # None
    /\ Len(prev[1].cache) >= 2
    /\ cache = None

\* C17: with capacity c >= 1 the live keys are exactly the min(c, n) most
\* recently touched of the n keys touched since construction or the last
\* clear, each with the value of its most recent put.
Touched == {k \in Keys : lastTouch[k] > 0}

Min(x, y) == IF x <= y THEN x ELSE y

C17_RefinesReferenceLRU ==
    (cache # None /\ cache[1].capacity >= 1) =>
        LET c == cache[1].capacity
            live == LiveKeys(cache[1])
        IN  /\ live \subseteq Touched
            /\ Cardinality(live) = Min(c, Cardinality(Touched))
            /\ Len(cache[1].cache) = Cardinality(live)
            /\ \A k \in live : \A j \in Touched \ live : lastTouch[k] > lastTouch[j]
            /\ live = RefLive(lastTouch, c)
            /\ \A k \in live : Some(ValueOf(cache[1], k)) = lastPut[k]

C17_Witness ==
    /\ cache # None
    /\ cache[1].capacity = 2
    /\ Cardinality(Touched) = 3
    /\ GetHit
    /\ prev[1].cache[1][1] = op.key[1]

\* C18: right after put(k, v) on a cache of capacity >= 1, k is live, k is the
\* first element of display() and get(k) returns v.
C18_PutThenGetRoundTrips ==
    (Did("put") /\ prev[1].capacity >= 1) =>
        LET k == op.key[1]
            v == op.value[1]
        IN  /\ k \in LiveKeys(cache[1])
            /\ render[1].items # <<>>
            /\ render[1].items[1] = <<k, v>>
            /\ display(cache[1]).ret[1] = <<k, v>>
            /\ get(cache[1], k).ret = v

C18_Witness ==
    /\ PutNewKeyWhenFull
    /\ prev[1].capacity = 1
    /\ op.value[1] # ValueOf(prev[1], prev[1].cache[1][1])

\* C19: in an initialized session the highlight is None or the most recently
\* used live key, the first element of display().
C19_HighlightIsMostRecentlyUsed ==
    (cache_initialized /\ highlight # None) =>
        /\ highlight[1] \in LiveKeys(cache[1])
        /\ display(cache[1]).ret[1][1] = highlight[1]

=============================================================================
